---- MODULE Spec2Model ----
(***************************************************************************)
(* RoyalWings: the order / booking lifecycle as the client services        *)
(* implement it on top of the document store.                              *)
(*                                                                         *)
(* The store is the shared state (menu items' stockCount, the orders and   *)
(* bookings collections).  Every service method is an async function; the  *)
(* store is read or written only at its awaits, so a method with one await *)
(* (addDoc, updateDoc) is one atomic step and a method with a getDoc       *)
(* followed by an updateDoc is two steps with the method's locals kept in  *)
(* `calls` between them.                                                   *)
(*                                                                         *)
(* The cart is the state of CartProvider's reducer; the gateway's payment   *)
(* intents are kept in `intents`.                                          *)
(* The browser's part is the signed-in user, the carts saved in            *)
(* localStorage, the effects CartProvider has still to run and the data    *)
(* waiting in the booking form's confirmation modal.                       *)
(*                                                                         *)
(* Money is kept in hundredths of a centavo (1/10000 PHP), so that 12% of a *)
(* price given to the centavo is exact.                                    *)
(* Fields of an order that no operation below reads or changes after       *)
(* creation (userId, userEmail, pickupCode, notes) are left out.           *)
(***************************************************************************)
EXTENDS Integers, Sequences, FiniteSets, Bags, TLC

\* ------------------------------------------------------------------ bounds
MaxStock == 1          \* largest initial stockCount of a menu item
MaxQty == 1            \* largest quantity of a cart line / decreaseStock call
MaxOrders == 2         \* orders created in one behaviour of the checkout
MaxTime == 1           \* the clock runs 0..MaxTime
MaxCalls == 2          \* two-step service calls in flight at once
MaxBookings == 2       \* bookings in the collection the sweep runs over
MaxCartStock == 2      \* largest stockCount of a menu item handed to the cart
MaxIntents == 2        \* payment intents created at the gateway

\* --------------------------------------------------------------- constants
TAX_RATE_PERCENT == 12
RESERVATION_FEE == 100

Items == {"wings"}
Price == [wings |-> 8005]         \* centavos: the menu item's price is 80.05 PHP

OrderStatus == {"pending", "preparing", "ready", "completed", "cancelled"}
PaymentStatus == {"unpaid", "paid", "failed"}
BookingStatus == {"pending_reservation", "unpaid_reservation", "paid_reservation",
                  "past_reservation", "declined_reservation", "cancelled_reservation"}

\* Gateway references (Stripe payment intent ids).  NoRef is the optional
\* paymentIntentId left out (or empty): `if (paymentIntentId)` is then false.
Refs == {<<"pi", 1>>, <<"pi", 2>>}
NoRef == <<>>

VARIABLES
  cart,       \* CartProvider's reducer state: lines and totals
  intents,    \* the gateway's payment intents: reference <<"pi", n>> is intents[n]
  stock,      \* menuItems collection: item -> stockCount
  stock0,     \* the stockCount every item started with (never changes)
  orders,     \* orders collection: id -> order document
  bookings,   \* bookings collection: id -> booking document
  now,        \* what new Date() / Timestamp.now() returns
  calls,      \* the two-step service calls in flight, each with its locals (a bag)
  last,       \* the service call that completed last, and how it ended
  pendingBookingData,  \* BookingForm: the data waiting in the confirmation modal
  currentUser,         \* AuthContext: the uid signed in, "" for nobody
  localStorage,        \* the browser's localStorage: key -> saved cart
  effects              \* CartProvider: the effects its last render left to run

vars == <<cart, intents, stock, stock0, orders, bookings, now, calls, last,
          pendingBookingData, currentUser, localStorage, effects>>

\* The state of the browser that no service call and no cart action touches.
browser == <<pendingBookingData, currentUser, localStorage, effects>>

\* The accounts that sign in on one browser, and the localStorage keys of their
\* carts (lines 267, 316): 'cart_' + uid, or 'cart' when nobody is signed in.
Users == {"ana", "ben"}
cartKey(userId) == IF userId # "" THEN <<"cart", userId>> ELSE <<"cart">>
CartKeys == { cartKey(u) : u \in Users \cup {""} }

\* localStorage.getItem of a key never set is null.
NoItem == <<>>

\* What a completed call leaves in `last`: the method, the document id, the other
\* arguments, the error thrown ("" when it returned), and the status and
\* payment.status the document had when the call's write (or throw) happened
\* (for decreaseStock the stockCount of the item, for createOrder the stock of
\* every item, at that moment).
Done(op, id, args, err, from, payFrom) ==
  [op |-> op, id |-> id, args |-> args, error |-> err, from |-> from, payFrom |-> payFrom]

\* -------------------------------------------------------------- pure parts

\* items.reduce((sum, item) => sum + item.menuItem.price * item.quantity, 0)
RECURSIVE SumLines(_)
SumLines(items) ==
  IF items = <<>> THEN 0
  ELSE Head(items).menuItem.price * 100 * Head(items).quantity + SumLines(Tail(items))

\* calculateCartTotals: subtotal = sum of price * quantity, tax = subtotal * TAX_RATE,
\* total = subtotal + tax (no rounding in the source; the division is exact here,
\* subtotal being a multiple of 100).
calculateCartTotals(items) ==
  LET subtotal == SumLines(items)
      tax == (subtotal * TAX_RATE_PERCENT) \div 100
  IN [subtotal |-> subtotal, tax |-> tax, total |-> subtotal + tax]

\* Math.round of n / unit: the nearest integer, halves upwards.
MathRound(n, unit) == (2 * n + unit) \div (2 * unit)

\* The quantity of item i in a list of cart lines.
RECURSIVE QtyOf(_, _)
QtyOf(items, i) ==
  IF items = <<>> THEN 0
  ELSE (IF Head(items).menuItem.id = i THEN Head(items).quantity ELSE 0) + QtyOf(Tail(items), i)

\* The carts a checkout can submit: one line, quantity 1..MaxQty.
Line(i, q) == [menuItem |-> [id |-> i, price |-> Price[i]], quantity |-> q]
CartLines == { <<Line(i, q)>> : i \in Items, q \in 1..MaxQty }

\* OrderConfirmation.handleSubmitOrder: orderData is the cart's lines and totals.
OrderData(items) ==
  LET t == calculateCartTotals(items)
  IN [items |-> items, subtotal |-> t.subtotal, tax |-> t.tax, total |-> t.total]

\* ------------------------------------------------------------ cartReducer

\* selectedFlavor of a cart action: "" is the flavor left out (falsy in line 152).
Flavors == {"", "bbq"}
CartNotes == {"", "no sauce"}

\* A menu item as the menu pages hand it to addToCart, showing stockCount s.
MenuItem(i, s) == [id |-> i, price |-> Price[i], stockCount |-> s]

\* itemId (line 152): menuItem.id + '_' + selectedFlavor, or menuItem.id alone.
ItemId(menuItem, selectedFlavor) ==
  IF selectedFlavor # "" THEN <<menuItem.id, selectedFlavor>> ELSE <<menuItem.id>>

ItemIds == { ItemId(MenuItem(i, 0), f) : i \in Items, f \in Flavors }

\* state.items.findIndex(item => item.id === itemId), counting from 1; 0 for -1.
findIndex(items, itemId) ==
  IF \E k \in DOMAIN items : items[k].id = itemId
    THEN CHOOSE k \in DOMAIN items :
           items[k].id = itemId /\ \A j \in 1..(k - 1) : items[j].id # itemId
    ELSE 0

\* The quantity of the line with this id, 0 when there is none.
QuantityIn(items, itemId) ==
  IF findIndex(items, itemId) > 0 THEN items[findIndex(items, itemId)].quantity ELSE 0

\* The itemId a cart action is about.
ActionItemId(action) ==
  CASE action.type = "ADD_ITEM" ->
         ItemId(action.payload.menuItem, action.payload.selectedFlavor)
    [] action.type = "CLEAR_CART" -> <<>>
    [] OTHER -> action.payload.itemId

\* { ...state, items: newItems, ...calculateCartTotals(newItems) }
WithItems(state, newItems) ==
  LET t == calculateCartTotals(newItems)
  IN [state EXCEPT !.items = newItems, !.subtotal = t.subtotal, !.tax = t.tax, !.total = t.total]

cartReducer_ADD_ITEM_ignoresCart(state, payload) ==
  LET itemId == ItemId(payload.menuItem, payload.selectedFlavor)
      existingItemIndex == findIndex(state.items, itemId)
      availableStock == payload.menuItem.stockCount
  IN IF payload.quantity > availableStock THEN state
     ELSE WithItems(state,
            IF existingItemIndex > 0
              THEN [state.items EXCEPT ![existingItemIndex].quantity = @ + payload.quantity]
              ELSE Append(state.items,
                     [id |-> itemId, menuItem |-> payload.menuItem,
                      quantity |-> payload.quantity, notes |-> payload.notes,
                      selectedFlavor |-> payload.selectedFlavor]))

\* case 'ADD_ITEM' (lines 150-184)
cartReducer_ADD_ITEM(state, payload) ==
  LET itemId == ItemId(payload.menuItem, payload.selectedFlavor)
      existingItemIndex == findIndex(state.items, itemId)
      existingQuantityInCart ==
        IF existingItemIndex > 0 THEN state.items[existingItemIndex].quantity ELSE 0
      availableStock == payload.menuItem.stockCount - existingQuantityInCart
  IN IF payload.quantity > availableStock THEN state
     ELSE WithItems(state,
            IF existingItemIndex > 0
              THEN [state.items EXCEPT ![existingItemIndex].quantity = @ + payload.quantity]
              ELSE Append(state.items,
                     [id |-> itemId, menuItem |-> payload.menuItem,
                      quantity |-> payload.quantity, notes |-> payload.notes,
                      selectedFlavor |-> payload.selectedFlavor]))

\* state.items.filter(item => item.id !== itemId)
WithoutItem(items, itemId) == SelectSeq(items, LAMBDA item : item.id # itemId)

\* case 'REMOVE_ITEM' (lines 186-193)
cartReducer_REMOVE_ITEM(state, payload) ==
  WithItems(state, WithoutItem(state.items, payload.itemId))

cartReducer_UPDATE_QUANTITY_anyQuantity(state, payload) ==
  LET k == findIndex(state.items, payload.itemId) IN
  IF k = 0 THEN state
  ELSE IF payload.quantity <= 0
    THEN WithItems(state, WithoutItem(state.items, payload.itemId))
    ELSE WithItems(state,
           [j \in DOMAIN state.items |->
              IF state.items[j].id = payload.itemId
                THEN [state.items[j] EXCEPT !.quantity = payload.quantity]
                ELSE state.items[j]])

\* case 'UPDATE_QUANTITY' (lines 195-230): the stock is the stockCount of the menu
\* item stored in the line.
cartReducer_UPDATE_QUANTITY(state, payload) ==
  LET k == findIndex(state.items, payload.itemId) IN
  IF k = 0 THEN state
  ELSE IF payload.quantity > state.items[k].menuItem.stockCount THEN state
  ELSE IF payload.quantity <= 0
    THEN WithItems(state, WithoutItem(state.items, payload.itemId))
    ELSE WithItems(state,
           [j \in DOMAIN state.items |->
              IF state.items[j].id = payload.itemId
                THEN [state.items[j] EXCEPT !.quantity = payload.quantity]
                ELSE state.items[j]])

\* case 'UPDATE_NOTES' (lines 232-243)
cartReducer_UPDATE_NOTES(state, payload) ==
  WithItems(state,
    [j \in DOMAIN state.items |->
       IF state.items[j].id = payload.itemId
         THEN [state.items[j] EXCEPT !.notes = payload.notes]
         ELSE state.items[j]])

\* case 'CLEAR_CART' (lines 245-251)
cartReducer_CLEAR_CART(state) ==
  [items |-> <<>>, subtotal |-> 0, tax |-> 0, total |-> 0]

cartReducer(state, action) ==
  CASE action.type = "ADD_ITEM" -> cartReducer_ADD_ITEM(state, action.payload)
    [] action.type = "REMOVE_ITEM" -> cartReducer_REMOVE_ITEM(state, action.payload)
    [] action.type = "UPDATE_QUANTITY" -> cartReducer_UPDATE_QUANTITY(state, action.payload)
    [] action.type = "UPDATE_NOTES" -> cartReducer_UPDATE_NOTES(state, action.payload)
    [] action.type = "CLEAR_CART" -> cartReducer_CLEAR_CART(state)
    [] OTHER -> state

\* ------------------------------------------------------------------- Init

initialCart == [items |-> <<>>, subtotal |-> 0, tax |-> 0, total |-> 0]

Init ==
  /\ cart = initialCart
  /\ intents = <<>>
  /\ stock \in [Items -> 0..MaxStock]
  /\ stock0 = stock
  /\ orders = <<>>
  /\ bookings = <<>>
  /\ now = 0
  /\ calls = EmptyBag
  /\ last = Done("none", 0, <<>>, "", "", "")
  /\ pendingBookingData = <<>>
  /\ currentUser = ""
  /\ localStorage = [k \in CartKeys |-> NoItem]
  /\ effects = "idle"

\* dispatch(action) of the cart context: the reducer's result becomes the cart.
\* `last` keeps the action, the number of lines the cart had and the quantity its
\* line with the action's itemId had.
dispatch(action) ==
  /\ cart' = cartReducer(cart, action)
  /\ last' = Done(action.type, 0, <<action.payload>>, "",
                  [lines |-> Len(cart.items),
                   quantity |-> QuantityIn(cart.items, ActionItemId(action))], "")
  /\ UNCHANGED <<intents, stock, stock0, orders, bookings, now, calls>>

\* The clock advances on its own.
Tick ==
  /\ now < MaxTime
  /\ now' = now + 1
  /\ UNCHANGED <<stock, stock0, orders, bookings, calls, last>>

\* Two successive new Date() calls inside one handler: the second returns the
\* same instant or a later one.
LaterReads == { t \in now..(now + 1) : t <= MaxTime }

InFlight(call) == BagIn(call, calls)
Begin(call) == calls (+) SetToBag({call})
End(call) == calls (-) SetToBag({call})

\* ------------------------------------------------------------ menuService

\* decreaseStock, up to its getDoc: the read of the current stockCount.
decreaseStock_getDoc(id, quantity) ==
  /\ BagCardinality(calls) < MaxCalls
  /\ calls' = Begin([pc |-> "decreaseStock", id |-> id, quantity |-> quantity,
                     currentStock |-> stock[id]])
  /\ UNCHANGED <<stock, stock0, orders, bookings, now, last>>

newStock_unclamped(currentStock, quantity) == currentStock - quantity

\* newStock = Math.max(0, currentStock - quantity)
newStock(currentStock, quantity) ==
  IF currentStock - quantity > 0 THEN currentStock - quantity ELSE 0

\* decreaseStock, its updateDoc: writes the stock computed from the earlier read.
decreaseStock_updateDoc(call) ==
  /\ InFlight(call)
  /\ call.pc = "decreaseStock"
  /\ stock' = [stock EXCEPT ![call.id] = newStock(call.currentStock, call.quantity)]
  /\ calls' = End(call)
  /\ last' = Done("decreaseStock", call.id, <<call.quantity>>, "", stock[call.id], "")
  /\ UNCHANGED <<stock0, orders, bookings, now>>

\* ----------------------------------------------------------- orderService

\* The document createOrder builds (lines 45-60): status pending, payment unpaid
\* with the caller's payment intent id and amount = orderData.total, createdAt and
\* updatedAt from two new Date() calls.
NewOrder(orderData, paymentIntentId, createdAt, updatedAt) ==
  [items |-> orderData.items,
   subtotal |-> orderData.subtotal,
   tax |-> orderData.tax,
   total |-> orderData.total,
   status |-> "pending",
   payment |-> [paymentIntentId |-> paymentIntentId, status |-> "unpaid",
                amount |-> orderData.total, paidAt |-> <<>>],
   createdAt |-> createdAt,
   updatedAt |-> updatedAt]

\* createOrder: builds the document and addDoc()s it under a fresh id.  It reads
\* and writes nothing else: neither the menu items' stock nor other orders.
createOrder(orderData, paymentIntentId) ==
  \E t \in LaterReads :
    /\ orders' = Append(orders, NewOrder(orderData, paymentIntentId, now, t))
    /\ now' = t
    /\ last' = Done("createOrder", Len(orders) + 1, <<paymentIntentId>>, "", stock, "")
    /\ UNCHANGED <<stock, stock0, bookings, calls>>

\* OrderConfirmation.handleSubmitOrder: createOrder with the cart and a temporary
\* payment intent id 'pending-' + Date.now().
handleSubmitOrder(items) ==
  createOrder(OrderData(items), <<"pending", now>>)

\* updateOrderStatus: one updateDoc of status and updatedAt, whatever the stored
\* status is and whatever status is asked for.
updateOrderStatus(orderId, status) ==
  /\ orderId \in DOMAIN orders
  /\ orders' = [orders EXCEPT ![orderId].status = status, ![orderId].updatedAt = now]
  /\ last' = Done("updateOrderStatus", orderId, <<status>>, "",
                  orders[orderId].status, orders[orderId].payment.status)
  /\ UNCHANGED <<stock, stock0, bookings, now, calls>>

orderPaymentUpdate_keepsStatus(order, paymentStatus, paymentIntentId, updatedAt, paidAt) ==
  [order EXCEPT
     !.payment.status = paymentStatus,
     !.updatedAt = updatedAt,
     !.payment.paymentIntentId = IF paymentIntentId # NoRef THEN paymentIntentId ELSE @,
     !.payment.paidAt = IF paymentStatus = "paid" THEN <<paidAt>> ELSE @]

\* The fields updatePaymentStatus puts in updateData (lines 91-104), applied to the
\* stored document: payment.status and updatedAt always, payment.paymentIntentId
\* when one is given, payment.paidAt and status = 'preparing' when paid.
orderPaymentUpdate(order, paymentStatus, paymentIntentId, updatedAt, paidAt) ==
  [order EXCEPT
     !.payment.status = paymentStatus,
     !.updatedAt = updatedAt,
     !.payment.paymentIntentId = IF paymentIntentId # NoRef THEN paymentIntentId ELSE @,
     !.payment.paidAt = IF paymentStatus = "paid" THEN <<paidAt>> ELSE @,
     !.status = IF paymentStatus = "paid" THEN "preparing" ELSE @]

\* orderService.updatePaymentStatus: one updateDoc; no read of the stored document.
orderService_updatePaymentStatus(orderId, paymentStatus, paymentIntentId) ==
  /\ orderId \in DOMAIN orders
  /\ \E t \in (IF paymentStatus = "paid" THEN LaterReads ELSE {now}) :
       /\ orders' = [orders EXCEPT ![orderId] =
            orderPaymentUpdate(@, paymentStatus, paymentIntentId, now, t)]
       /\ now' = t
  /\ last' = Done("order.updatePaymentStatus", orderId, <<paymentStatus, paymentIntentId>>, "",
                  orders[orderId].status, orders[orderId].payment.status)
  /\ UNCHANGED <<stock, stock0, bookings, calls>>

\* if (!isAdmin && order.status !== 'pending') throw
cancelOrderRejects(isAdmin, status) == ~isAdmin /\ status # "pending"

\* cancelOrder, up to the end of getOrder: reads the order and throws for a
\* customer when the status read is not pending; otherwise goes on to the write.
cancelOrder_getOrder(orderId, isAdmin) ==
  /\ orderId \in DOMAIN orders
  /\ BagCardinality(calls) < MaxCalls
  /\ IF cancelOrderRejects(isAdmin, orders[orderId].status)
       THEN /\ last' = Done("cancelOrder", orderId, <<isAdmin>>,
                            "Only pending orders can be cancelled by users",
                            orders[orderId].status, orders[orderId].payment.status)
            /\ UNCHANGED calls
       ELSE /\ calls' = Begin([pc |-> "cancelOrder", id |-> orderId, isAdmin |-> isAdmin])
            /\ UNCHANGED last
  /\ UNCHANGED <<stock, stock0, orders, bookings, now>>

\* cancelOrder, its updateDoc: writes status cancelled without reading again.
cancelOrder_updateDoc(call) ==
  /\ InFlight(call)
  /\ call.pc = "cancelOrder"
  /\ orders' = [orders EXCEPT ![call.id].status = "cancelled", ![call.id].updatedAt = now]
  /\ calls' = End(call)
  /\ last' = Done("cancelOrder", call.id, <<call.isAdmin>>, "",
                  orders[call.id].status, orders[call.id].payment.status)
  /\ UNCHANGED <<stock, stock0, bookings, now>>

\* --------------------------------------------------------- bookingService

\* The document createBooking builds (lines 10-22).  payment has no
\* paymentIntentId and no paidAt yet.
NewBooking(bookingData, createdAt, updatedAt) ==
  [date |-> bookingData.date,
   numberOfPeople |-> bookingData.numberOfPeople,
   status |-> "pending_reservation",
   reservationFee |-> RESERVATION_FEE,
   payment |-> [paymentIntentId |-> NoRef, status |-> "unpaid",
                amount |-> RESERVATION_FEE, paidAt |-> <<>>],
   createdAt |-> createdAt,
   updatedAt |-> updatedAt]

\* createBooking: one addDoc; two Timestamp.now() reads.
createBooking(bookingData) ==
  \E t \in LaterReads :
    /\ bookings' = Append(bookings, NewBooking(bookingData, now, t))
    /\ now' = t
    /\ last' = Done("createBooking", Len(bookings) + 1, <<>>, "", "", "")
    /\ UNCHANGED <<stock, stock0, orders, calls>>

updateBookingStatus_cancelResetsPayment(bookingId, status) ==
  /\ bookingId \in DOMAIN bookings
  /\ bookings' = [bookings EXCEPT
       ![bookingId].status = status,
       ![bookingId].updatedAt = now,
       ![bookingId].payment.status = IF status = "cancelled_reservation" THEN "unpaid" ELSE @,
       ![bookingId].payment.paidAt = IF status = "cancelled_reservation" THEN <<>> ELSE @]
  /\ last' = Done("updateBookingStatus", bookingId, <<status>>, "",
                  bookings[bookingId].status, bookings[bookingId].payment.status)
  /\ UNCHANGED <<stock, stock0, orders, now, calls>>

\* updateBookingStatus: one updateDoc of status and updatedAt (approve, decline,
\* cancel and the sweep all go through it).
updateBookingStatus(bookingId, status) ==
  /\ bookingId \in DOMAIN bookings
  /\ bookings' = [bookings EXCEPT ![bookingId].status = status, ![bookingId].updatedAt = now]
  /\ last' = Done("updateBookingStatus", bookingId, <<status>>, "",
                  bookings[bookingId].status, bookings[bookingId].payment.status)
  /\ UNCHANGED <<stock, stock0, orders, now, calls>>

bookingPaymentUpdate_failedReopens(booking, paymentStatus, paymentIntentId, updatedAt, paidAt) ==
  [booking EXCEPT
     !.payment.status = paymentStatus,
     !.updatedAt = updatedAt,
     !.payment.paymentIntentId = IF paymentIntentId # NoRef THEN paymentIntentId ELSE @,
     !.payment.paidAt = IF paymentStatus = "paid" THEN <<paidAt>> ELSE @,
     !.status = IF paymentStatus = "paid" THEN "paid_reservation"
                ELSE IF paymentStatus = "failed" THEN "unpaid_reservation" ELSE @]

\* The fields bookingService.updatePaymentStatus puts in updateData (lines 88-100).
bookingPaymentUpdate(booking, paymentStatus, paymentIntentId, updatedAt, paidAt) ==
  [booking EXCEPT
     !.payment.status = paymentStatus,
     !.updatedAt = updatedAt,
     !.payment.paymentIntentId = IF paymentIntentId # NoRef THEN paymentIntentId ELSE @,
     !.payment.paidAt = IF paymentStatus = "paid" THEN <<paidAt>> ELSE @,
     !.status = IF paymentStatus = "paid" THEN "paid_reservation" ELSE @]

\* bookingService.updatePaymentStatus: one updateDoc; no read of the stored document.
bookingService_updatePaymentStatus(bookingId, paymentStatus, paymentIntentId) ==
  /\ bookingId \in DOMAIN bookings
  /\ \E t \in (IF paymentStatus = "paid" THEN LaterReads ELSE {now}) :
       /\ bookings' = [bookings EXCEPT ![bookingId] =
            bookingPaymentUpdate(@, paymentStatus, paymentIntentId, now, t)]
       /\ now' = t
  /\ last' = Done("booking.updatePaymentStatus", bookingId, <<paymentStatus, paymentIntentId>>, "",
                  bookings[bookingId].status, bookings[bookingId].payment.status)
  /\ UNCHANGED <<stock, stock0, orders, calls>>

\* The booking dates and party sizes a customer submits.
BookingData == [date : 0..MaxTime, numberOfPeople : {2}]

\* updatePastBookings, its filter (lines 137-140): a booking is selected when it is
\* paid_reservation or cancelled_reservation and its date is not after `now`, the
\* new Date() read when the sweep started.
isPastBooking_strictlyBefore(booking, sweepNow) ==
  /\ booking.status \in {"paid_reservation", "cancelled_reservation"}
  /\ booking.date < sweepNow

isPastBooking(booking, sweepNow) ==
  /\ booking.status \in {"paid_reservation", "cancelled_reservation"}
  /\ booking.date <= sweepNow

pastBookingStatus_inTwoStages(booking) ==
  IF booking.status = "paid_reservation" THEN "cancelled_reservation" ELSE "past_reservation"

\* The status the sweep asks updateBookingStatus to write for a selected booking
\* (line 142).
pastBookingStatus(booking) == "past_reservation"

\* pastBookings.filter(status !== 'past_reservation') of what getAllBookings
\* returned: the ids the sweep issues an updateBookingStatus for.
updatePromises(allBookings, sweepNow) ==
  { b \in DOMAIN allBookings :
      isPastBooking(allBookings[b], sweepNow) /\ allBookings[b].status # "past_reservation" }

\* The sweep has returned: `from` is what its getAllBookings read, args are its
\* `now` and, when the call that completed just before it started was a sweep,
\* that sweep's `now`.
SweepDone(call, allBookings) ==
  Done("updatePastBookings", 0, <<call.now, call.after>>, "", allBookings, "")

\* updatePastBookings up to its first await: reads new Date() and calls
\* getAllBookings.
updatePastBookings_start ==
  /\ BagCardinality(calls) < MaxCalls
  /\ calls' = Begin([pc |-> "getAllBookings", now |-> now,
                     after |-> IF last.op = "updatePastBookings" THEN <<last.args[1]>> ELSE <<>>])
  /\ UNCHANGED <<stock, stock0, orders, bookings, now, last>>

\* getAllBookings returns: the sweep filters what it read and issues one
\* updateBookingStatus per selected booking (the argument of each updateDoc,
\* with its Timestamp.now(), is built here); with nothing selected it returns.
updatePastBookings_getAllBookings(call) ==
  /\ InFlight(call)
  /\ call.pc = "getAllBookings"
  /\ LET ids == updatePromises(bookings, call.now) IN
     IF ids = {}
       THEN /\ calls' = End(call)
            /\ last' = SweepDone(call, bookings)
       ELSE /\ calls' = End(call) (+) SetToBag({[pc |-> "updateDoc", now |-> call.now,
                            after |-> call.after, allBookings |-> bookings,
                            updatePromises |-> ids, updatedAt |-> now]})
            /\ UNCHANGED last
  /\ UNCHANGED <<stock, stock0, orders, bookings, now>>

\* One of the sweep's updateDoc calls takes effect (Promise.all: in any order);
\* after the last one the sweep returns.
updatePastBookings_updateDoc(call, bookingId) ==
  /\ InFlight(call)
  /\ call.pc = "updateDoc"
  /\ bookingId \in call.updatePromises
  /\ bookings' = [bookings EXCEPT
       ![bookingId].status = pastBookingStatus(call.allBookings[bookingId]),
       ![bookingId].updatedAt = call.updatedAt]
  /\ LET rest == call.updatePromises \ {bookingId} IN
     IF rest = {}
       THEN /\ calls' = End(call)
            /\ last' = SweepDone(call, call.allBookings)
       ELSE /\ calls' = End(call) (+) SetToBag({[call EXCEPT !.updatePromises = rest]})
            /\ UNCHANGED last
  /\ UNCHANGED <<stock, stock0, orders, now>>

\* A stored booking in a given status (created earlier, then moved there).
BookingIn(date, status) ==
  [NewBooking([date |-> date, numberOfPeople |-> 2], 0, 0) EXCEPT !.status = status]

\* The bookings collections the sweep is run over: 1..MaxBookings bookings, each
\* of any date and status.
Datasets ==
  UNION { [1..n -> { BookingIn(d, s) : d \in 0..MaxTime, s \in BookingStatus }] :
            n \in 1..MaxBookings }

InitSweep ==
  /\ cart = initialCart
  /\ intents = <<>>
  /\ stock = [i \in Items |-> MaxStock]
  /\ stock0 = stock
  /\ orders = <<>>
  /\ bookings \in Datasets
  /\ now = 0
  /\ calls = EmptyBag
  /\ last = Done("none", 0, <<>>, "", "", "")
  /\ pendingBookingData = <<>>
  /\ currentUser = ""
  /\ localStorage = [k \in CartKeys |-> NoItem]
  /\ effects = "idle"

\* ------------------------------------------------------------ BookingForm

\* What the booking form submits: a date and a party size (the name, the time of
\* day and the requests are stored as given and read by nothing below).
BookingFormData == [date : 0..MaxTime, numberOfPeople : {0, 1, 20, 21}]

\* validateAndShowErrors (lines 62-87): the date is before new Date(), or the
\* party size is missing (0 is falsy), below 1 or above 20.  The schema's
\* date.min(new Date()) is taken when the module loads, before any submit, and
\* numberOfPeople min(1) max(20) repeat the check, so the schema rejects
\* nothing this does not.
validateAndShowErrors(data) ==
  \/ data.date < now
  \/ data.numberOfPeople = 0
  \/ data.numberOfPeople < 1
  \/ data.numberOfPeople > 20

\* handleFormSubmit: data with errors is dropped (toasts only); other data waits
\* in the confirmation modal.
BookingForm_handleFormSubmit(data) ==
  /\ ~validateAndShowErrors(data)
  /\ pendingBookingData' = data
  /\ UNCHANGED <<cart, intents, stock, stock0, orders, bookings, now, calls, last,
                 currentUser, localStorage, effects>>

\* handleCancelBooking: the modal is closed and the data forgotten.
BookingForm_handleCancelBooking ==
  /\ pendingBookingData # <<>>
  /\ pendingBookingData' = <<>>
  /\ UNCHANGED <<cart, intents, stock, stock0, orders, bookings, now, calls, last,
                 currentUser, localStorage, effects>>

\* BookingPage.handleSubmit: nothing without a signed-in user, else createBooking
\* with the data as the form handed it over.
BookingPage_handleSubmit(data) ==
  IF currentUser = ""
    THEN UNCHANGED <<stock, stock0, orders, bookings, now, calls, last>>
    ELSE createBooking(data)

\* handleConfirmBooking: onSubmit(pendingBookingData), with no second look at
\* the clock, and the modal is closed.
BookingForm_handleConfirmBooking ==
  /\ pendingBookingData # <<>>
  /\ BookingPage_handleSubmit(pendingBookingData)
  /\ pendingBookingData' = <<>>
  /\ UNCHANGED <<cart, intents, currentUser, localStorage, effects>>

\* ----------------------------------------------------------- CartProvider

\* JSON.stringify(cart): a line's selectedFlavor that is undefined is left out of
\* the text; every other field of a cart is a number, a string or an array and
\* is written as it is.
JSON_stringify(c) ==
  [c EXCEPT !.items =
     [k \in DOMAIN c.items |->
        IF c.items[k].selectedFlavor = ""
          THEN [f \in (DOMAIN c.items[k]) \ {"selectedFlavor"} |-> c.items[k][f]]
          ELSE c.items[k]]]

\* JSON.parse of a text JSON.stringify wrote: the object with the keys written.
JSON_parse(text) == text

\* item.selectedFlavor of a parsed line: undefined when the key is not there.
selectedFlavorOf(item) ==
  IF "selectedFlavor" \in DOMAIN item THEN item.selectedFlavor ELSE ""

\* getInitialCart (lines 265-281): the cart saved under the user's key, or
\* initialCart when nothing is saved there.
getInitialCart(userId) ==
  IF localStorage[cartKey(userId)] # NoItem
    THEN JSON_parse(localStorage[cartKey(userId)])
    ELSE initialCart

\* The forEach of lines 301-311: one ADD_ITEM per saved line, through the reducer.
RECURSIVE addSavedItems(_, _)
addSavedItems(state, items) ==
  IF items = <<>> THEN state
  ELSE addSavedItems(
         cartReducer(state,
           [type |-> "ADD_ITEM",
            payload |-> [menuItem |-> Head(items).menuItem,
                         quantity |-> Head(items).quantity,
                         notes |-> Head(items).notes,
                         selectedFlavor |-> selectedFlavorOf(Head(items))]]),
         Tail(items))

\* onAuthStateChanged: setCurrentUser(user).  CartProvider renders again with
\* the cart it has and the new uid; both of its effects are then due.  `last`
\* keeps localStorage as it was at the switch and the user signed in before.
AuthProvider_setCurrentUser(userId) ==
  /\ effects = "idle"
  /\ userId # currentUser
  /\ currentUser' = userId
  /\ effects' = "uid"
  /\ last' = Done("setCurrentUser", 0, <<userId>>, "", localStorage, currentUser)
  /\ UNCHANGED <<cart, intents, stock, stock0, orders, bookings, now, calls,
                 pendingBookingData, localStorage>>

\* The effects of the render after the uid changed, in their order: the first
\* (lines 297-313) reads the new user's saved cart and dispatches CLEAR_CART and
\* an ADD_ITEM per saved line; the second (lines 315-318) saves the cart of this
\* render, still the previous user's, under the new user's key.  The dispatched
\* actions make the cart of the next render, whose save is then due.
CartProvider_uidEffects ==
  /\ effects = "uid"
  /\ LET newCart == getInitialCart(currentUser)
     IN cart' = addSavedItems(cartReducer(cart, [type |-> "CLEAR_CART", payload |-> <<>>]),
                              newCart.items)
  /\ localStorage' = [localStorage EXCEPT ![cartKey(currentUser)] = JSON_stringify(cart)]
  /\ effects' = "cart"
  /\ UNCHANGED <<intents, stock, stock0, orders, bookings, now, calls, last,
                 pendingBookingData, currentUser>>

\* The effect of a render with a new cart (lines 315-318): the cart is saved
\* under the current user's key.
CartProvider_cartEffect ==
  /\ effects = "cart"
  /\ localStorage' = [localStorage EXCEPT ![cartKey(currentUser)] = JSON_stringify(cart)]
  /\ effects' = "idle"
  /\ UNCHANGED <<cart, intents, stock, stock0, orders, bookings, now, calls, last,
                 pendingBookingData, currentUser>>

\* addToCart .. clearCart of a mounted provider: the dispatch, after which the
\* save of the new cart is due.
CartProvider_dispatch(action) ==
  /\ effects = "idle"
  /\ dispatch(action)
  /\ effects' = "cart"
  /\ UNCHANGED <<pendingBookingData, currentUser, localStorage>>

\* ------------------------------------------------------------ card payment

\* <StripeCheckout amount={Math.round(cart.total)}>: the total in whole pesos.
StripeCheckout_amount(total) == MathRound(total, 100 * 100)

\* stripeService.createPaymentIntent: amountInCents = Math.round(amount * 100),
\* for an amount in pesos.
amountInCents(amount) == MathRound(amount * 100, 1)

\* The statuses confirmPayment returns the payment intent in (a card error
\* leaves it in requires_payment_method).
IntentStatus == {"succeeded", "processing", "requires_action", "requires_payment_method"}

\* StripeCheckout's effect: createPaymentIntent(orderId, amount, email); the
\* server creates the intent with the amount of the request.  cart.total is
\* the total handleSubmitOrder stored on the order the modal is open for.
\* `modal` is the payment modal of the intent: open, closed, or "onSuccess"
\* while the callback handleSubmit called has not yet written to the store;
\* `delivered` says the gateway's payment_intent.succeeded event has reached
\* the server's webhook.
StripeCheckout_createPaymentIntent(orderId) ==
  /\ orderId \in DOMAIN orders
  /\ Len(intents) < MaxIntents
  /\ intents' = Append(intents,
       [orderId |-> orderId,
        amount |-> amountInCents(StripeCheckout_amount(orders[orderId].total)),
        status |-> "requires_payment_method",
        modal |-> "open",
        delivered |-> FALSE])
  /\ UNCHANGED <<cart, stock, stock0, orders, bookings, now, calls, last>>

\* OrderConfirmation.handlePaymentSuccess: marks the order paid under the
\* intent's id and clears the cart.
handlePaymentSuccess(orderId, paymentIntentId) ==
  /\ orderService_updatePaymentStatus(orderId, "paid", paymentIntentId)
  /\ cart' = cartReducer(cart, [type |-> "CLEAR_CART", payload |-> <<>>])

\* handlePaymentSuccess when updatePaymentStatus throws (the store cannot be
\* reached): the catch logs the error and the handler goes on to clear the cart.
handlePaymentSuccess_catch(orderId, paymentIntentId) ==
  /\ cart' = cartReducer(cart, [type |-> "CLEAR_CART", payload |-> <<>>])
  /\ last' = Done("order.updatePaymentStatus", orderId, <<"paid", paymentIntentId>>,
                  "unavailable", orders[orderId].status, orders[orderId].payment.status)
  /\ UNCHANGED <<stock, stock0, orders, bookings, now, calls>>

\* StripeCheckout.handleSubmit, up to the end of confirmPayment: the gateway
\* leaves the intent in some status and returns it; onSuccess is due for
\* succeeded and for processing, otherwise an error is shown and the form stays.
StripeCheckout_handleSubmit(i, status) ==
  /\ i \in DOMAIN intents
  /\ intents[i].modal = "open"
  /\ intents[i].status # "succeeded"
  /\ intents' = [intents EXCEPT
       ![i].status = status,
       ![i].modal = IF status \in {"succeeded", "processing"} THEN "onSuccess" ELSE "open"]
  /\ UNCHANGED <<cart, stock, stock0, orders, bookings, now, calls, last>>

\* StripeCheckout.handleSubmit, its onSuccess(paymentIntent.id): the write of
\* handlePaymentSuccess lands or throws, and the modal closes.
StripeCheckout_onSuccess(i) ==
  /\ i \in DOMAIN intents
  /\ intents[i].modal = "onSuccess"
  /\ intents' = [intents EXCEPT ![i].modal = "closed"]
  /\ \/ handlePaymentSuccess(intents[i].orderId, <<"pi", i>>)
     \/ handlePaymentSuccess_catch(intents[i].orderId, <<"pi", i>>)

\* The page goes away (the tab is closed, the connection is lost) while the modal
\* is open or between confirmPayment's answer and the write of onSuccess: what
\* the handler had left to do is never done.
StripeCheckout_unmount(i) ==
  /\ i \in DOMAIN intents
  /\ intents[i].modal \in {"open", "onSuccess"}
  /\ intents' = [intents EXCEPT ![i].modal = "closed"]
  /\ UNCHANGED <<cart, stock, stock0, orders, bookings, now, calls, last>>

\* POST /api/stripe/webhook for the payment_intent.succeeded event of an intent:
\* the event is logged and acknowledged; no order is read or written.
stripeRoutes_webhook(i) ==
  /\ i \in DOMAIN intents
  /\ intents[i].status = "succeeded"
  /\ ~intents[i].delivered
  /\ intents' = [intents EXCEPT ![i].delivered = TRUE]
  /\ UNCHANGED <<cart, stock, stock0, orders, bookings, now, calls, last>>

\* ----------------------------------------------------------- specifications

\* Checkout: concurrent order submissions and stock decrements.
NextCheckout ==
  /\ \/ Tick
     \/ \E items \in CartLines : Len(orders) < MaxOrders /\ handleSubmitOrder(items)
     \/ \E id \in Items, q \in 1..MaxQty : decreaseStock_getDoc(id, q)
     \/ \E call \in BagToSet(calls) : decreaseStock_updateDoc(call)
  /\ UNCHANGED <<cart, intents, browser>>

SpecCheckout == Init /\ [][NextCheckout]_vars

\* Every lifecycle operation below reads and writes exactly one document, the one
\* its id names, so the documents of a collection do not interact: the lifecycle
\* specifications create one document and follow it.
NoDocuments == orders = <<>> /\ bookings = <<>>

\* Order lifecycle: staff status updates, payment results and cancellations of
\* the orders of one behaviour, in every interleaving.
NextOrder ==
  /\ \/ Tick
     \/ \E items \in CartLines : NoDocuments /\ handleSubmitOrder(items)
     \/ \E o \in DOMAIN orders, s \in OrderStatus : updateOrderStatus(o, s)
     \/ \E o \in DOMAIN orders, ps \in PaymentStatus, ref \in Refs \cup {NoRef} :
          orderService_updatePaymentStatus(o, ps, ref)
     \/ \E o \in DOMAIN orders, isAdmin \in BOOLEAN : cancelOrder_getOrder(o, isAdmin)
     \/ \E call \in BagToSet(calls) : cancelOrder_updateDoc(call)
  /\ UNCHANGED <<cart, intents, browser>>

SpecOrder == Init /\ [][NextOrder]_vars

\* Payment reconciliation: payment results applied to orders and bookings, with
\* the status updates that bring a subject to the state a result finds it in.
NextPayment ==
  /\ \/ Tick
     \/ \E items \in CartLines : NoDocuments /\ handleSubmitOrder(items)
     \/ \E data \in BookingData : NoDocuments /\ createBooking(data)
     \/ \E o \in DOMAIN orders, s \in OrderStatus : updateOrderStatus(o, s)
     \/ \E b \in DOMAIN bookings, s \in BookingStatus : updateBookingStatus(b, s)
     \/ \E o \in DOMAIN orders, ps \in PaymentStatus, ref \in Refs \cup {NoRef} :
          orderService_updatePaymentStatus(o, ps, ref)
     \/ \E b \in DOMAIN bookings, ps \in PaymentStatus, ref \in Refs \cup {NoRef} :
          bookingService_updatePaymentStatus(b, ps, ref)
  /\ UNCHANGED <<cart, intents, browser>>

SpecPayment == Init /\ [][NextPayment]_vars

\* The sweep: runs of updatePastBookings, one after the other, over a
\* collection of bookings, while the clock advances.
NextSweep ==
  /\ \/ Tick
     \/ calls = EmptyBag /\ updatePastBookings_start
     \/ \E call \in BagToSet(calls) : updatePastBookings_getAllBookings(call)
     \/ \E call \in BagToSet(calls), b \in DOMAIN bookings : updatePastBookings_updateDoc(call, b)
  /\ UNCHANGED <<cart, intents, browser>>

SpecSweep == InitSweep /\ [][NextSweep]_vars

\* Card payment of an order: the order is submitted, the payment modal creates
\* intents for it and the customer confirms them.
NextStripe ==
  /\ \/ Tick /\ UNCHANGED <<cart, intents>>
     \/ \E items \in CartLines :
          NoDocuments /\ handleSubmitOrder(items) /\ UNCHANGED <<cart, intents>>
     \/ \E o \in DOMAIN orders : StripeCheckout_createPaymentIntent(o)
     \/ \E i \in DOMAIN intents, status \in IntentStatus : StripeCheckout_handleSubmit(i, status)
     \/ \E i \in DOMAIN intents : StripeCheckout_onSuccess(i)
     \/ \E i \in DOMAIN intents : StripeCheckout_unmount(i)
     \/ \E i \in DOMAIN intents : stripeRoutes_webhook(i)
  /\ UNCHANGED browser

SpecStripe == Init /\ [][NextStripe]_vars

\* The same with what is bound to happen: a callback that is due runs (unless
\* the page goes away first) and the gateway delivers its event to the webhook.
SpecStripeLive ==
  /\ SpecStripe
  /\ WF_vars(UNCHANGED browser /\ \E i \in DOMAIN intents : StripeCheckout_onSuccess(i))
  /\ WF_vars(UNCHANGED browser /\ \E i \in DOMAIN intents : stripeRoutes_webhook(i))

\* The booking page (rendered for a signed-in user only): the form is submitted,
\* confirmed or cancelled while the clock advances.
InitBooking ==
  /\ cart = initialCart
  /\ intents = <<>>
  /\ stock = [i \in Items |-> MaxStock]
  /\ stock0 = stock
  /\ orders = <<>>
  /\ bookings = <<>>
  /\ now = 0
  /\ calls = EmptyBag
  /\ last = Done("none", 0, <<>>, "", "", "")
  /\ pendingBookingData = <<>>
  /\ currentUser \in Users
  /\ localStorage = [k \in CartKeys |-> NoItem]
  /\ effects = "idle"

NextBooking ==
  \/ Tick /\ UNCHANGED <<cart, intents, browser>>
  \/ \E data \in BookingFormData :
       pendingBookingData = <<>> /\ BookingForm_handleFormSubmit(data)
  \/ BookingForm_handleCancelBooking
  \/ Len(bookings) < MaxBookings /\ BookingForm_handleConfirmBooking

SpecBooking == InitBooking /\ [][NextBooking]_vars

\* The quantities and the ADD_ITEM payloads the cart actions carry: a menu item
\* in any flavor, showing any stockCount, in a quantity from below zero to above
\* the stock; notes are '' as every caller of addToCart passes them.
Quantities == (0 - 1)..(MaxCartStock + 1)
AddPayloads ==
  [menuItem : { MenuItem(i, s) : i \in Items, s \in 0..MaxCartStock },
   quantity : Quantities, notes : {""}, selectedFlavor : Flavors]

InitCart ==
  /\ cart = initialCart
  /\ intents = <<>>
  /\ stock = [i \in Items |-> MaxStock]
  /\ stock0 = stock
  /\ orders = <<>>
  /\ bookings = <<>>
  /\ now = 0
  /\ calls = EmptyBag
  /\ last = Done("none", 0, <<>>, "", "", "")
  /\ pendingBookingData = <<>>
  /\ currentUser = ""
  /\ localStorage = [k \in CartKeys |-> NoItem]
  /\ effects = "idle"

\* The cart: any sequence of cart actions (a line's quantity is kept from
\* falling without bound).
NextCart ==
  /\ \/ \E payload \in AddPayloads :
          /\ QuantityIn(cart.items, ItemId(payload.menuItem, payload.selectedFlavor))
               + payload.quantity >= 0 - 1
          /\ dispatch([type |-> "ADD_ITEM", payload |-> payload])
     \/ \E id \in ItemIds :
          dispatch([type |-> "REMOVE_ITEM", payload |-> [itemId |-> id]])
     \/ \E id \in ItemIds, q \in Quantities :
          dispatch([type |-> "UPDATE_QUANTITY", payload |-> [itemId |-> id, quantity |-> q]])
     \/ \E id \in ItemIds, n \in CartNotes :
          dispatch([type |-> "UPDATE_NOTES", payload |-> [itemId |-> id, notes |-> n]])
     \/ dispatch([type |-> "CLEAR_CART", payload |-> <<>>])
  /\ UNCHANGED browser

SpecCart == InitCart /\ [][NextCart]_vars

\* Sessions on one browser: users sign in and out and change their carts; the
\* menu pages show an item with the stockCount it has at that moment.
SessionPayloads ==
  [menuItem : { MenuItem(i, s) : i \in Items, s \in 1..MaxCartStock },
   quantity : 1..MaxCartStock, notes : {""}, selectedFlavor : {""}]

\* CartProvider mounts with nobody signed in and nothing saved: the cart is
\* getInitialCart(undefined) = initialCart and both effects are due.
InitSession ==
  /\ cart = initialCart
  /\ intents = <<>>
  /\ stock = [i \in Items |-> MaxStock]
  /\ stock0 = stock
  /\ orders = <<>>
  /\ bookings = <<>>
  /\ now = 0
  /\ calls = EmptyBag
  /\ last = Done("none", 0, <<>>, "", "", "")
  /\ pendingBookingData = <<>>
  /\ currentUser = ""
  /\ localStorage = [k \in CartKeys |-> NoItem]
  /\ effects = "uid"

NextSession ==
  \/ \E userId \in Users \cup {""} : AuthProvider_setCurrentUser(userId)
  \/ CartProvider_uidEffects
  \/ CartProvider_cartEffect
  \/ \E payload \in SessionPayloads :
       CartProvider_dispatch([type |-> "ADD_ITEM", payload |-> payload])
  \/ \E id \in ItemIds :
       CartProvider_dispatch([type |-> "REMOVE_ITEM", payload |-> [itemId |-> id]])
  \/ CartProvider_dispatch([type |-> "CLEAR_CART", payload |-> <<>>])

SpecSession == InitSession /\ [][NextSession]_vars

\* ------------------------------------------------------------------ claims

\* A run of the sweep has returned and no later run has begun.
SweepReturned == last.op = "updatePastBookings" /\ calls = EmptyBag

OrderOps == {"updateOrderStatus", "cancelOrder", "order.updatePaymentStatus"}
PaymentOps == {"order.updatePaymentStatus", "booking.updatePaymentStatus"}

\* The document the last call was about.
Subject ==
  IF last.op \in {"createBooking", "updateBookingStatus", "booking.updatePaymentStatus"}
    THEN bookings[last.id] ELSE orders[last.id]

\* The quantity of item i in the first n stored orders.
RECURSIVE Ordered(_, _)
Ordered(i, n) == IF n = 0 THEN 0 ELSE QtyOf(orders[n].items, i) + Ordered(i, n - 1)

\* C1: the orders that createOrder stored (the calls that succeeded) request, in
\* sum, at most the stock the item had: of two calls for the last unit one fails.
C1_SucceededWithinStock ==
  \A i \in Items : Ordered(i, Len(orders)) <= stock0[i]

\* C2: every menu item's stockCount is an integer >= 0 in every reachable state
\* of concurrent createOrder and decreaseStock calls.
C2_StockNeverNegative ==
  \A i \in Items : stock[i] \in Nat

\* C2 witness: orders were submitted and a decreaseStock call wrote its stock
\* after reading less than, or no more than, the quantity it takes off.
C2_Witness ==
  /\ Len(orders) > 0
  /\ last.op = "decreaseStock"
  /\ last.args[1] > last.from
  /\ stock[last.id] = 0

\* C3: createOrder is all-or-nothing on stock: an order is stored only when every
\* line is within the current stock, and then every ordered item's stock is lower
\* by the line's quantity (otherwise the call fails with InsufficientStock and
\* stores nothing).
C3_AllOrNothing ==
  last.op = "createOrder" =>
    LET items == orders[last.id].items IN
    /\ \A i \in Items : QtyOf(items, i) <= last.from[i]
    /\ \A i \in Items : stock[i] = last.from[i] - QtyOf(items, i)

\* The transition matrix of the order lifecycle.
OrderEdges ==
  { <<"pending", "preparing">>, <<"preparing", "ready">>, <<"ready", "completed">>,
    <<"pending", "cancelled">>, <<"preparing", "cancelled">>, <<"ready", "cancelled">> }

\* C4: every change of an order's status made by updateOrderStatus, cancelOrder or
\* updatePaymentStatus is an edge of the matrix; a call for any other change fails
\* with InvalidStateTransition and leaves status and payment as they were.
C4_OnlyMatrixEdges ==
  last.op \in OrderOps =>
    /\ last.from # orders[last.id].status => <<last.from, orders[last.id].status>> \in OrderEdges
    /\ (last.op = "updateOrderStatus" /\ last.args[1] # last.from
          /\ <<last.from, last.args[1]>> \notin OrderEdges)
       => /\ last.error = "InvalidStateTransition"
          /\ orders[last.id].status = last.from
          /\ orders[last.id].payment.status = last.payFrom

TerminalStatus == {"completed", "cancelled"}

\* C5: an order found completed or cancelled by updateOrderStatus, cancelOrder or
\* updatePaymentStatus still has that status after the call.
C5_TerminalIsFinal ==
  (last.op \in OrderOps /\ last.from \in TerminalStatus)
    => orders[last.id].status = last.from

\* C6: a customer's cancelOrder writes cancelled only over a status that is pending
\* at the write; a staff cancelOrder succeeds exactly from pending, preparing, ready.
C6_CancelOnlyWhenAllowed ==
  last.op = "cancelOrder" =>
    IF last.args[1]
      THEN (last.error = "") <=> (last.from \in {"pending", "preparing", "ready"})
      ELSE (last.error = "") => (last.from = "pending")

\* What C7 compares of a subject: status and the payment fields.
PaymentView(doc) ==
  <<doc.status, doc.payment.status, doc.payment.paidAt, doc.payment.paymentIntentId>>

\* A step that applies once more the succeeded result the last call applied (same
\* method, same subject, same reference), with nothing but time in between.
SameResultAgain(op) ==
  /\ last.op = op /\ last'.op = op
  /\ last'.id = last.id
  /\ last.args[1] = "paid" /\ last.args[2] \in Refs
  /\ last'.args = last.args

\* C7: applying a succeeded result to an order or booking twice in a row leaves
\* status, payment.status, payment.paidAt and payment.paymentIntentId as the first
\* application left them.
C7_SecondApplicationChangesNothing ==
  [][ /\ SameResultAgain("order.updatePaymentStatus")
           => PaymentView(orders'[last.id]) = PaymentView(orders[last.id])
      /\ SameResultAgain("booking.updatePaymentStatus")
           => PaymentView(bookings'[last.id]) = PaymentView(bookings[last.id]) ]_vars

\* C8: a succeeded result delivered again for an order that is already paid under
\* that reference, and that staff has moved to ready, completed or cancelled,
\* changes neither the order's status nor its payment record.
C8_DuplicateAfterStaffMoveIsNoOp ==
  [][ \A o \in DOMAIN orders :
        ( /\ orders[o].payment.status = "paid"
          /\ orders[o].status \in {"ready", "completed", "cancelled"}
          /\ last'.op = "order.updatePaymentStatus" /\ last'.id = o
          /\ last'.args = <<"paid", orders[o].payment.paymentIntentId>>
          /\ last'.from = orders[o].status /\ last'.payFrom = "paid" )
        => /\ orders'[o].status = orders[o].status
           /\ orders'[o].payment = orders[o].payment ]_vars

\* C9: a failed result applied to an order or booking whose payment.status is paid
\* leaves payment.status paid.
C9_PaidIsSticky ==
  (last.op \in PaymentOps /\ last.args[1] = "failed" /\ last.payFrom = "paid")
    => Subject.payment.status = "paid"

\* The payment fields a succeeded result leaves: paid, paidAt set to the time of
\* the application, and the result's gateway reference.
PaidWith(doc, ref) ==
  /\ doc.payment.status = "paid"
  /\ Len(doc.payment.paidAt) = 1
  /\ doc.payment.paidAt[1] >= doc.updatedAt /\ doc.payment.paidAt[1] <= now
  /\ ref \in Refs => doc.payment.paymentIntentId = ref

\* C10: a succeeded result applied to a pending, unpaid order leaves it paid (with
\* paidAt and the result's reference) and preparing; applied to a booking in
\* unpaid_reservation it leaves the same payment fields and paid_reservation.
C10_SucceededResultApplied ==
  /\ ( /\ last.op = "order.updatePaymentStatus" /\ last.args[1] = "paid"
       /\ last.from = "pending" /\ last.payFrom = "unpaid" )
     => /\ PaidWith(orders[last.id], last.args[2])
        /\ orders[last.id].status = "preparing"
  /\ ( /\ last.op = "booking.updatePaymentStatus" /\ last.args[1] = "paid"
       /\ last.from = "unpaid_reservation" )
     => /\ PaidWith(bookings[last.id], last.args[2])
        /\ bookings[last.id].status = "paid_reservation"

\* C10 witness: a booking that staff approved and whose succeeded result, with a
\* gateway reference, has just been applied.
C10_Witness ==
  /\ last.op = "booking.updatePaymentStatus"
  /\ last.args[1] = "paid" /\ last.args[2] \in Refs
  /\ last.from = "unpaid_reservation" /\ last.payFrom = "unpaid"
  /\ bookings[last.id].status = "paid_reservation"

\* C11: an order or booking whose payment.status is paid has payment.paidAt set
\* and a post-payment status: the order is not pending, the booking is not
\* pending_reservation, unpaid_reservation or declined_reservation.
C11_PaidIsPostPayment ==
  /\ \A o \in DOMAIN orders :
       orders[o].payment.status = "paid"
         => /\ orders[o].payment.paidAt # <<>>
            /\ orders[o].status # "pending"
  /\ \A b \in DOMAIN bookings :
       bookings[b].payment.status = "paid"
         => /\ bookings[b].payment.paidAt # <<>>
            /\ bookings[b].status \notin
                 {"pending_reservation", "unpaid_reservation", "declined_reservation"}

\* C12: a failed result applied to an order or booking leaves payment.status
\* failed and leaves status, the items and totals (for a booking its date, party
\* size and fee), the amount and paidAt as they were.
C12_FailedChangesOnlyPaymentStatus ==
  [][ /\ (last'.op = "order.updatePaymentStatus" /\ last'.args[1] = "failed")
           => LET before == orders[last'.id]
                  after == orders'[last'.id]
              IN /\ after.payment.status = "failed"
                 /\ after.status = before.status
                 /\ after.items = before.items
                 /\ <<after.subtotal, after.tax, after.total>>
                      = <<before.subtotal, before.tax, before.total>>
                 /\ after.payment.amount = before.payment.amount
                 /\ after.payment.paidAt = before.payment.paidAt
      /\ (last'.op = "booking.updatePaymentStatus" /\ last'.args[1] = "failed")
           => LET before == bookings[last'.id]
                  after == bookings'[last'.id]
              IN /\ after.payment.status = "failed"
                 /\ after.status = before.status
                 /\ <<after.date, after.numberOfPeople, after.reservationFee>>
                      = <<before.date, before.numberOfPeople, before.reservationFee>>
                 /\ after.payment.amount = before.payment.amount
                 /\ after.payment.paidAt = before.payment.paidAt ]_vars

\* C12 witness: a failed result has just been applied to a booking that was paid
\* and in paid_reservation; it is still in paid_reservation, with its paidAt.
C12_Witness ==
  /\ last.op = "booking.updatePaymentStatus"
  /\ last.args[1] = "failed"
  /\ last.from = "paid_reservation" /\ last.payFrom = "paid"
  /\ bookings[last.id].payment.status = "failed"
  /\ bookings[last.id].status = "paid_reservation"
  /\ bookings[last.id].payment.paidAt # <<>>

\* C13: a succeeded result applied while the booking is pending_reservation,
\* declined_reservation, cancelled_reservation or past_reservation does not set
\* its status to paid_reservation.
C13_PaidReservationOnlyFromUnpaid ==
  ( /\ last.op = "booking.updatePaymentStatus" /\ last.args[1] = "paid"
    /\ last.from \in {"pending_reservation", "declined_reservation",
                      "cancelled_reservation", "past_reservation"} )
    => bookings[last.id].status # "paid_reservation"

\* C14: approve (updateBookingStatus to unpaid_reservation) and decline (to
\* declined_reservation) take effect when the stored status is
\* pending_reservation at the write; on any other status they are rejected and
\* the booking's status and payment stay as they were.
C14_ApproveDeclineOnlyFromPending ==
  ( /\ last.op = "updateBookingStatus"
    /\ last.args[1] \in {"unpaid_reservation", "declined_reservation"} )
    => IF last.from = "pending_reservation"
         THEN last.error = "" /\ bookings[last.id].status = last.args[1]
         ELSE /\ last.error # ""
              /\ bookings[last.id].status = last.from
              /\ bookings[last.id].payment.status = last.payFrom

\* C15: updateBookingStatus to cancelled_reservation leaves the booking's payment
\* sub-record (status, paidAt, amount, gateway reference) as it was and its status
\* cancelled_reservation.
C15_CancelKeepsPayment ==
  [][ (last'.op = "updateBookingStatus" /\ last'.args[1] = "cancelled_reservation")
        => /\ bookings'[last'.id].payment = bookings[last'.id].payment
           /\ bookings'[last'.id].status = "cancelled_reservation" ]_vars

\* C15 witness: a booking that was approved and paid under a gateway reference
\* has just been cancelled; it is cancelled_reservation and still paid.
C15_Witness ==
  /\ last.op = "updateBookingStatus"
  /\ last.args[1] = "cancelled_reservation"
  /\ last.from = "paid_reservation" /\ last.payFrom = "paid"
  /\ bookings[last.id].status = "cancelled_reservation"
  /\ bookings[last.id].payment.status = "paid"
  /\ bookings[last.id].payment.paidAt # <<>>
  /\ bookings[last.id].payment.paymentIntentId \in Refs

\* C16: when a run of the sweep returns, the bookings it read with date <= now
\* and status paid_reservation or cancelled_reservation are past_reservation, and
\* every other booking has the status it read.
C16_SweepSetsExactlyThePastOnes ==
  SweepReturned =>
    \A b \in DOMAIN bookings :
      LET read == last.from[b] IN
      IF read.date <= last.args[1]
           /\ read.status \in {"paid_reservation", "cancelled_reservation"}
        THEN bookings[b].status = "past_reservation"
        ELSE bookings[b] = read

\* C16 witness: a run returned that found one paid booking dated at or before its
\* `now` and one dated after it; the first is past_reservation, the second is not.
C16_Witness ==
  /\ SweepReturned
  /\ \E b1, b2 \in DOMAIN bookings :
       /\ last.from[b1].status = "paid_reservation" /\ last.from[b1].date <= last.args[1]
       /\ bookings[b1].status = "past_reservation"
       /\ last.from[b2].status = "paid_reservation" /\ last.from[b2].date > last.args[1]
       /\ bookings[b2].status = "paid_reservation"

\* C17: a run of the sweep that follows a run with the same `now` leaves every
\* booking with the status the first run left it (so the set of past_reservation
\* bookings is the same after two runs as after one).
C17_SecondSweepChangesNothing ==
  (SweepReturned /\ last.args[2] = <<last.args[1]>>)
    => \A b \in DOMAIN bookings : bookings[b].status = last.from[b].status

\* C17 witness: the second of two runs with the same `now` returned, the first
\* having moved a booking to past_reservation.
C17_Witness ==
  /\ SweepReturned /\ last.args[2] = <<last.args[1]>>
  /\ \E b \in DOMAIN bookings :
       /\ bookings[b].status = "past_reservation"
       /\ bookings[b].updatedAt > bookings[b].createdAt

\* C19: after every cart action, and in the initial cart, subtotal is the sum of
\* price * quantity over the lines, tax is subtotal * 12% rounded to the centavo,
\* and total is subtotal + tax.
C19_TotalsFollowLines ==
  /\ cart.subtotal = SumLines(cart.items)
  /\ cart.tax = MathRound(cart.subtotal * TAX_RATE_PERCENT, 100 * 100) * 100
  /\ cart.total = cart.subtotal + cart.tax

\* The line of the cart with a payload's key (menu item and flavor), 0 for none.
LineOf(items, payload) ==
  IF \E k \in DOMAIN items : /\ items[k].menuItem.id = payload.menuItem.id
                             /\ items[k].selectedFlavor = payload.selectedFlavor
    THEN CHOOSE k \in DOMAIN items : /\ items[k].menuItem.id = payload.menuItem.id
                                     /\ items[k].selectedFlavor = payload.selectedFlavor
    ELSE 0

\* What C20 says ADD_ITEM makes of a cart.
AddItemAsClaimed(before, payload, after) ==
  LET k == LineOf(before.items, payload)
      existing == IF k > 0 THEN before.items[k].quantity ELSE 0
      n == Len(before.items)
  IN IF existing + payload.quantity > payload.menuItem.stockCount
       THEN after = before
       ELSE IF k > 0
         THEN after.items = [before.items EXCEPT ![k].quantity = @ + payload.quantity]
         ELSE /\ Len(after.items) = n + 1
              /\ SubSeq(after.items, 1, n) = before.items
              /\ after.items[n + 1].quantity = payload.quantity
              /\ after.items[n + 1].menuItem.id = payload.menuItem.id
              /\ after.items[n + 1].selectedFlavor = payload.selectedFlavor

\* C20: on every cart and for every menu item, flavor, stock and quantity, ADD_ITEM
\* adds the quantity to the line with that key, or appends one line at the end
\* when there is none, and leaves the other lines alone; when the key's quantity
\* plus the added one exceeds the item's stock it returns the cart unchanged.
C20_AddItemMergesOrAppends ==
  \A payload \in AddPayloads :
    AddItemAsClaimed(cart, payload, cartReducer_ADD_ITEM(cart, payload))

\* C20 witness: ADD_ITEM has just grown an existing line of a two-line cart.
C20_Witness ==
  /\ last.op = "ADD_ITEM"
  /\ last.args[1].quantity >= 1
  /\ last.from.quantity >= 1
  /\ last.from.lines = 2 /\ Len(cart.items) = 2
  /\ QuantityIn(cart.items, ItemId(last.args[1].menuItem, last.args[1].selectedFlavor))
       = last.from.quantity + last.args[1].quantity

\* C18: a succeeded payment applied to an order under an intent whose amount at
\* the gateway differs from the order's payment.amount fails with
\* PaymentMismatch and does not leave the order paid.
C18_MismatchIsRejected ==
  \A i \in DOMAIN intents :
    ( /\ last.op = "order.updatePaymentStatus"
      /\ last.args = <<"paid", <<"pi", i>>>>
      /\ intents[i].amount * 100 # orders[last.id].payment.amount )
    => /\ last.error = "PaymentMismatch"
       /\ orders[last.id].payment.status # "paid"

\* What C21 says UPDATE_QUANTITY makes of a cart; the item's stock is the
\* stockCount of the menu item held in the line.
UpdateQuantityAsClaimed(before, itemId, q, after) ==
  LET n == Len(before.items)
      exists == \E k \in 1..n : before.items[k].id = itemId
      k == CHOOSE j \in 1..n : before.items[j].id = itemId
  IN IF ~exists THEN after = before
     ELSE IF q <= 0
       THEN after.items = SubSeq(before.items, 1, k - 1) \o SubSeq(before.items, k + 1, n)
     ELSE IF q <= before.items[k].menuItem.stockCount
       THEN after.items = [before.items EXCEPT ![k].quantity = q]
       ELSE after = before

\* C21: on every cart, UPDATE_QUANTITY(lineId, q) removes the line when q <= 0,
\* sets its quantity to q in place when 0 < q <= stock, and returns the cart
\* unchanged when q exceeds the stock or there is no such line.
C21_UpdateQuantitySetsRemovesOrRejects ==
  \A itemId \in ItemIds, q \in Quantities :
    UpdateQuantityAsClaimed(cart, itemId, q,
      cartReducer_UPDATE_QUANTITY(cart, [itemId |-> itemId, quantity |-> q]))

\* C21 witness: UPDATE_QUANTITY has just been refused for a quantity above the
\* stock of a line of a two-line cart, which keeps its quantity.
C21_Witness ==
  /\ last.op = "UPDATE_QUANTITY"
  /\ last.from.lines = 2 /\ Len(cart.items) = 2
  /\ last.from.quantity >= 1
  /\ LET k == findIndex(cart.items, last.args[1].itemId) IN
       /\ k > 0
       /\ last.args[1].quantity > cart.items[k].menuItem.stockCount
       /\ cart.items[k].quantity = last.from.quantity

\* The largest stockCount the cart's lines of menu item i show.
ShownStock(i) ==
  LET shown == { cart.items[k].menuItem.stockCount :
                   k \in { j \in DOMAIN cart.items : cart.items[j].menuItem.id = i } }
  IN CHOOSE m \in shown : \A x \in shown : x <= m

\* C22: the quantity the cart holds of a menu item, summed over its lines of all
\* flavors, never exceeds the item's stock count.
C22_ItemQuantityWithinStock ==
  \A i \in Items :
    (\E k \in DOMAIN cart.items : cart.items[k].menuItem.id = i)
      => QtyOf(cart.items, i) <= ShownStock(i)

\* C23: every line of the cart has quantity >= 1 (an ADD_ITEM of quantity 0 or
\* less is rejected and leaves no such line).
C23_EveryLineAtLeastOne ==
  \A k \in DOMAIN cart.items : cart.items[k].quantity >= 1


\* C24: the order a successful createOrder has just stored is pending and unpaid,
\* has no paidAt, has payment.amount equal to its total, and has createdAt equal
\* to updatedAt.
C24_NewOrderIsPendingUnpaid ==
  last.op = "createOrder" =>
    /\ orders[last.id].status = "pending"
    /\ orders[last.id].payment.status = "unpaid"
    /\ orders[last.id].payment.paidAt = <<>>
    /\ orders[last.id].payment.amount = orders[last.id].total
    /\ orders[last.id].createdAt = orders[last.id].updatedAt

\* C25: a booking createBooking has just stored was asked for a date strictly
\* after the moment it was stored and for 1 to 20 people (any other is rejected
\* before storing), and is stored as pending_reservation, unpaid, with the fixed
\* reservation fee as its payment amount.
C25_StoredBookingIsValidPendingUnpaid ==
  last.op = "createBooking" =>
    /\ bookings[last.id].date > bookings[last.id].createdAt
    /\ bookings[last.id].numberOfPeople \in 1..20
    /\ bookings[last.id].status = "pending_reservation"
    /\ bookings[last.id].payment.status = "unpaid"
    /\ bookings[last.id].payment.amount = RESERVATION_FEE

\* C26: a staff-only transition asked for by a caller who is not staff fails and
\* changes nothing.  updateOrderStatus and the approval of bookings are called
\* by the admin pages alone, which ProtectedRoute renders for staff only; the
\* call a customer can make is cancelOrder with isAdmin = false, and it is
\* staff-only when the order it writes over is not pending.
C26_CustomerCancelOfNonPendingFails ==
  (last.op = "cancelOrder" /\ ~last.args[1] /\ last.from # "pending")
    => /\ last.error # ""
       /\ orders[last.id].status = last.from

\* C27: of a cancellation and the application of a succeeded payment to one
\* order, the write that lands second does not overwrite what the first left:
\* a succeeded payment that finds the order cancelled leaves it cancelled and
\* its payment.status as it was, and a cancellation that finds the order
\* already paid and preparing fails and leaves it preparing.
C27_SecondWriteDoesNotOverwrite ==
  /\ ( /\ last.op = "order.updatePaymentStatus" /\ last.args[1] = "paid"
       /\ last.from = "cancelled" )
     => /\ orders[last.id].status = "cancelled"
        /\ orders[last.id].payment.status = last.payFrom
  /\ ( /\ last.op = "cancelOrder" /\ ~last.args[1]
       /\ last.from = "preparing" /\ last.payFrom = "paid" )
     => /\ last.error # ""
        /\ orders[last.id].status = "preparing"

\* C28: an order's payment.status is paid only when the gateway has reported an
\* intent of that order as succeeded; while its intents are processing, require
\* action or require a payment method the order is not paid.
C28_PaidOnlyAfterSucceeded ==
  \A o \in DOMAIN orders :
    orders[o].payment.status = "paid"
      => \E i \in DOMAIN intents :
           intents[i].orderId = o /\ intents[i].status = "succeeded"

\* C29: every intent the gateway has confirmed as succeeded is eventually
\* applied to its order: the order's payment.status becomes paid, also when the
\* client's write fails or the client goes away.
C29_SucceededIsEventuallyApplied ==
  \A i \in 1..MaxIntents :
    (i \in DOMAIN intents /\ intents[i].status = "succeeded")
      ~> (i \in DOMAIN intents /\ orders[intents[i].orderId].payment.status = "paid")

\* The lines of a cart or of a saved cart: id, quantity and notes of each.
LinesOf(c) ==
  IF c = NoItem THEN <<>>
  ELSE [k \in DOMAIN c.items |-> <<c.items[k].id, c.items[k].quantity, c.items[k].notes>>]

\* C30: once the effects of a switch from one user to another have run, the
\* cart and the cart saved under the new user's key hold exactly the lines that
\* were saved under that key at the switch, and what is saved under the
\* previous user's key is what was saved there at the switch.
C30_CartFollowsTheUser ==
  (last.op = "setCurrentUser" /\ effects = "idle")
    => /\ LinesOf(cart) = LinesOf(last.from[cartKey(currentUser)])
       /\ LinesOf(localStorage[cartKey(currentUser)])
            = LinesOf(last.from[cartKey(currentUser)])
       /\ localStorage[cartKey(last.payFrom)] = last.from[cartKey(last.payFrom)]

====
